---- MODULE Spec2Model ----
(***************************************************************************)
(* GoLuTube (lutube.go): the video store kept on the file system under     *)
(* videos/<id>/ {video.mp4, videodata.txt}, written by uploadHandler /     *)
(* saveVideo and read by loadVideo / getAvailableVideos.                   *)
(*                                                                         *)
(* Strings are sequences of one-character strings, byte streams are        *)
(* sequences of numbers.  Request handlers run concurrently (net/http      *)
(* starts one goroutine per request); each handler yields between two      *)
(* system calls, so every action below is one file-system operation plus   *)
(* the straight-line code that follows it.                                 *)
(***************************************************************************)
EXTENDS Integers, Sequences, FiniteSets, TLC

\* ---------------------------------------------------------------- bounds
\* Number of distinct names ioutil.TempDir can draw (the real one: 10^9..).
MaxNames == 2
\* Longest upload payload, in bytes, and the largest byte value of a payload.
MaxPayloadLen == 2
MaxByte == 2
\* Longest title, in characters.
MaxTitleLen == 1
\* Bytes moved by one Read/Write round of io.Copy (the real one: 32 KiB).
CopyBuf == 1
\* Concurrent request goroutines, and requests served in one behaviour.
NumProcs == 2
MaxOps == 2

\* ------------------------------------------------------------ value sets
DigitChars == <<"0", "1", "2", "3", "4", "5", "6", "7", "8", "9">>

TitleChars == {"x", "y"}

SeqsUpTo(S, n) == UNION { [1..k -> S] : k \in 0..n }

\* Names ioutil.TempDir may generate: prefix "" + a decimal random suffix.
Names == { <<DigitChars[i + 1]>> : i \in 1..MaxNames }

\* The upload streams: the first k bytes of the pattern 1, 2, .., MaxByte, 1, ..
\* (neighbouring bytes differ, so a reordered, repeated or dropped byte shows).
Stream(k) == [i \in 1..k |-> ((i - 1) % MaxByte) + 1]

Payloads == { Stream(k) : k \in 0..MaxPayloadLen }

Titles == SeqsUpTo(TitleChars, MaxTitleLen)

Procs == 1..NumProcs

\* ------------------------------------------------------------- strings
Drop(s, n) == IF n >= Len(s) THEN <<>> ELSE SubSeq(s, n + 1, Len(s))

Take(s, n) == IF n >= Len(s) THEN s ELSE SubSeq(s, 1, n)

HasPrefix(s, pre) == Len(s) >= Len(pre) /\ SubSeq(s, 1, Len(pre)) = pre

StrVideosSlash == <<"v", "i", "d", "e", "o", "s", "/">>

StrDotSlashVideo == <<".", "/", "v", "i", "d", "e", "o">>

StrDotSlashVideosSlash == <<".", "/", "v", "i", "d", "e", "o", "s", "/">>

StrWatch == <<"/", "w", "a", "t", "c", "h", "/">>

StrErrorFu == <<"/", "?", "e", "r", "r", "o", "r", "=", "f", "u">>

\* ---------------------------------------------------------- file system
\* One file: whether it exists and its bytes.
NoFile == [exists |-> FALSE, data |-> <<>>]

EmptyFile == [exists |-> TRUE, data |-> <<>>]

\* One directory videos/<name>: whether it exists, and its two files.
NoSlot == [dir |-> FALSE, video |-> NoFile, meta |-> NoFile]

\* The directory a path names, relative to videos/: the path with a leading
\* "./" and the leading "videos/" removed; <<>> when it is not under videos/.
SlotOf(path) ==
  LET p == IF HasPrefix(path, <<".", "/">>) THEN Drop(path, 2) ELSE path
  IN IF HasPrefix(p, StrVideosSlash) THEN Drop(p, Len(StrVideosSlash)) ELSE <<>>

\* Does the directory exist in file system f?
IsDir(f, name) == name \in Names /\ f[name].dir

\* write(2) at a file offset: bytes b replace the file's bytes from offset
\* off on; a gap left by a truncation is filled with zeros.
RECURSIVE Zeros(_)
Zeros(n) == IF n <= 0 THEN <<>> ELSE <<0>> \o Zeros(n - 1)

WriteAt(data, off, b) ==
  IF Len(b) = 0 THEN data
  ELSE Take(data, off) \o Zeros(off - Len(data)) \o b \o Drop(data, off + Len(b))

\* ------------------------------------------------------------ Video values
\* *Video: nil, or a pointer to Video{Id, Title}.
NilVideo == [isNil |-> TRUE, Id |-> <<>>, Title |-> <<>>]

Video(id, title) == [isNil |-> FALSE, Id |-> id, Title |-> title]

\* Variant of loadVideo that drops the error of ReadFile and builds a Video
\* from the empty content.
loadVideoNoErr(f, id) ==
  LET slot == SlotOf(StrVideosSlash \o id)
  IN IF IsDir(f, slot) /\ f[slot].meta.exists
     THEN [video |-> Video(id, f[slot].meta.data), err |-> "nil"]
     ELSE [video |-> Video(id, <<>>), err |-> "nil"]

\* loadVideo(id) on file system f: ioutil.ReadFile of videos/<id>/videodata.txt;
\* the error of ReadFile, or the Video holding the file's bytes as its title.
loadVideo(f, id) ==
  LET slot == SlotOf(StrVideosSlash \o id)
  IN IF IsDir(f, slot) /\ f[slot].meta.exists
     THEN [video |-> Video(id, f[slot].meta.data), err |-> "nil"]
     ELSE [video |-> NilVideo, err |-> "err"]

\* ioutil.ReadDir("videos"): the entries of videos/, sorted by file name.
RECURSIVE SortedNames(_, _)
SortedNames(S, i) ==
  IF i > Len(DigitChars) THEN <<>>
  ELSE (IF <<DigitChars[i]>> \in S THEN << <<DigitChars[i]>> >> ELSE <<>>)
       \o SortedNames(S, i + 1)

ReadDir(f) == SortedNames({ n \in Names : f[n].dir }, 1)

\* --------------------------------------------------------------- state
VARIABLES
  fs,         \* the directory videos/: name -> slot
  h,          \* the request goroutines: their handler, position and locals
  ops,        \* requests started so far
  allocCount, \* history: how many TempDir calls returned each name
  saveCalls,  \* history: how many saveVideo calls were made on each slot
  payloadsOf, \* history: the payloads passed to the saveVideo calls on each slot
  titlesOf,   \* history: the titles passed to the saveVideo calls on each slot
  disk,       \* what of videos/ has reached the disk and survives a power loss
  lastOk      \* history: the arguments of the last saveVideo call on each slot
              \* that returned nil and that no other call on the slot
              \* overlapped, until the next saveVideo call on the slot
              \* (oks: how many such calls the slot has seen, up to two)

vars == <<fs, h, ops, allocCount, saveCalls, payloadsOf, titlesOf, disk, lastOk>>

NoSave == [valid |-> FALSE, title |-> <<>>, payload |-> <<>>, oks |-> 0]

EmptyStore == [n \in Names |-> NoSlot]

Idle ==
  [op |-> "idle", pc |-> "idle", id |-> <<>>, title |-> <<>>, src |-> <<>>,
   off |-> 0, shared |-> FALSE, err |-> "nil", fail |-> "none", out |-> <<>>,
   video |-> NilVideo, stream |-> "none", page |-> "none",
   list |-> <<>>, i |-> 0, res |-> <<>>,
   dirty |-> FALSE, quiet |-> FALSE, snap |-> EmptyStore,
   snapOk |-> [n \in Names |-> NoSave]]

\* The server starts on the videos/ directory its earlier runs left: empty, or
\* holding one video that an earlier upload stored completely.
FirstName == <<DigitChars[2]>>

OldTitle == <<"x">>

OldPayload == Stream(MaxPayloadLen)

OldStore ==
  [EmptyStore EXCEPT ![FirstName] =
     [dir |-> TRUE, video |-> [exists |-> TRUE, data |-> OldPayload],
      meta |-> [exists |-> TRUE, data |-> OldTitle]]]

Init ==
  /\ h = [p \in Procs |-> Idle]
  /\ ops = 0
  /\ \/ /\ fs = EmptyStore
        /\ allocCount = [n \in Names |-> 0]
        /\ saveCalls = [n \in Names |-> 0]
        /\ payloadsOf = [n \in Names |-> {}]
        /\ titlesOf = [n \in Names |-> {}]
        /\ lastOk = [n \in Names |-> NoSave]
     \/ /\ fs = OldStore
        /\ allocCount = [n \in Names |-> IF n = FirstName THEN 1 ELSE 0]
        /\ saveCalls = [n \in Names |-> IF n = FirstName THEN 1 ELSE 0]
        /\ payloadsOf = [n \in Names |-> IF n = FirstName THEN {OldPayload} ELSE {}]
        /\ titlesOf = [n \in Names |-> IF n = FirstName THEN {OldTitle} ELSE {}]
        /\ lastOk = [n \in Names |->
                       IF n = FirstName
                       THEN [valid |-> TRUE, title |-> OldTitle,
                             payload |-> OldPayload, oks |-> 1]
                       ELSE NoSave]
  /\ disk = fs

\* A goroutine is free to take a new request.
Free(p) == h[p].pc \in {"idle", "done"} /\ ops < MaxOps

\* The positions inside saveVideo.
SavePcs == {"createVideo", "copy", "createData", "writeTitle"}

\* Variant of videoDirectory that ignores the id and names one fixed directory.
videoDirectoryFixed(id) == StrDotSlashVideosSlash \o FirstName

\* The directory saveVideo works in: "./videos/" + video.Id.
videoDirectory(id) == StrDotSlashVideosSlash \o id

\* A change of the file system is seen by the enumerations in progress.
Touch(hh) ==
  [q \in Procs |->
     IF hh[q].op = "home" /\ hh[q].pc = "loop"
     THEN [hh[q] EXCEPT !.dirty = TRUE] ELSE hh[q]]

\* Variant of closeStream that leaves the stream as it is.
closeStreamNever(st) == st

\* defer videoFile.Close(): runs when uploadHandler returns, on the stream
\* FormFile opened.
closeStream(st) == IF st = "open" THEN "closed" ELSE st

\* saveVideo returns e to its caller; uploadHandler then redirects to the
\* error page or to the watch page of the new id.  (fail is history: the first
\* step of the call that failed.)
Return(r, e, step) ==
  [Idle EXCEPT !.op = r.op, !.pc = "done", !.id = r.id, !.err = e,
               !.fail = IF r.fail /= "none" THEN r.fail ELSE step,
               !.stream = closeStream(r.stream),
               !.out = IF r.op = "upload"
                       THEN (IF e /= "nil" THEN StrErrorFu ELSE StrWatch \o r.id)
                       ELSE <<>>]

\* History: a saveVideo call on slot starts; the call of record r returns,
\* leaving the record done.
NoteCall(slot, title, src) ==
  /\ saveCalls' = IF slot \in Names
                  THEN [saveCalls EXCEPT ![slot] = IF @ < 2 THEN @ + 1 ELSE @]
                  ELSE saveCalls
  /\ payloadsOf' = IF slot \in Names
                   THEN [payloadsOf EXCEPT ![slot] = @ \cup {src}]
                   ELSE payloadsOf
  /\ titlesOf' = IF slot \in Names
                 THEN [titlesOf EXCEPT ![slot] = @ \cup {title}]
                 ELSE titlesOf
  /\ lastOk' = IF slot \in Names
               THEN [lastOk EXCEPT ![slot] = [NoSave EXCEPT !.oks = lastOk[slot].oks]]
               ELSE lastOk

NoteReturn(r, done) ==
  LET slot == SlotOf(videoDirectory(r.id))
  IN lastOk' = IF done.pc = "done" /\ done.err = "nil" /\ slot \in Names
                  /\ ~r.shared
               THEN [lastOk EXCEPT ![slot] =
                       [valid |-> TRUE, title |-> r.title, payload |-> r.src,
                        oks |-> IF @.oks < 2 THEN @.oks + 1 ELSE @.oks]]
               ELSE lastOk

\* ------------------------------------------------------- uploadHandler
\* Variant of idOf that cuts one character more off the path.
idOfOffByOne(videoDir) == Drop(videoDir, Len(StrDotSlashVideo) + 1)

\* The id uploadHandler cuts out of the path TempDir returned:
\* videoDir[len("./video"):].
idOf(videoDir) == Drop(videoDir, Len(StrDotSlashVideo))

\* Variant of Mkdir that accepts a directory that exists already (as
\* os.MkdirAll does).
MkdirNoExcl(f, name) ==
  IF f[name].dir THEN [ok |-> TRUE, fs |-> f]
  ELSE [ok |-> TRUE, fs |-> [f EXCEPT ![name] = [NoSlot EXCEPT !.dir = TRUE]]]

\* os.Mkdir inside ioutil.TempDir: creates the directory unless the name is
\* taken (EEXIST, on which TempDir draws another name).
Mkdir(f, name) ==
  IF f[name].dir THEN [ok |-> FALSE, fs |-> f]
  ELSE [ok |-> TRUE, fs |-> [f EXCEPT ![name] = [NoSlot EXCEPT !.dir = TRUE]]]

\* ParseMultipartForm and FormFile succeed: the handler holds the upload
\* stream and the title.
UploadParse(p, title, src) ==
  /\ Free(p)
  /\ h' = [h EXCEPT ![p] = [Idle EXCEPT !.op = "upload", !.pc = "tempdir",
                                        !.title = title, !.src = src,
                                        !.stream = "open"]]
  /\ ops' = ops + 1
  /\ UNCHANGED <<fs, allocCount, saveCalls, payloadsOf, titlesOf,
               disk, lastOk>>

\* ParseMultipartForm or FormFile fails: the error goes to homePageHandler.
UploadParseFail(p) ==
  /\ Free(p)
  /\ h' = [h EXCEPT ![p] = [Idle EXCEPT !.op = "upload", !.pc = "done",
                                        !.err = "err"]]
  /\ ops' = ops + 1
  /\ UNCHANGED <<fs, allocCount, saveCalls, payloadsOf, titlesOf,
               disk, lastOk>>

\* ioutil.TempDir("videos/", "") creates a directory under a name it drew and
\* returns its path; the handler derives the id and calls saveVideo.
TempDir(p) ==
  /\ h[p].op = "upload" /\ h[p].pc = "tempdir"
  /\ \E name \in Names :
       LET m == Mkdir(fs, name)
           videoDir == StrVideosSlash \o name
           id == idOf(videoDir)
       IN /\ m.ok
          /\ fs' = m.fs
          /\ allocCount' = [allocCount EXCEPT ![name] = @ + 1]
          /\ h' = [Touch(h) EXCEPT ![p] = [h[p] EXCEPT !.id = id,
                                                       !.pc = "createVideo"]]
          /\ NoteCall(SlotOf(videoDirectory(id)), h[p].title, h[p].src)
  /\ UNCHANGED <<ops, disk>>

\* ioutil.TempDir fails (no name left after its retries, or Mkdir refused).
TempDirFail(p) ==
  /\ h[p].op = "upload" /\ h[p].pc = "tempdir"
  /\ h' = [h EXCEPT ![p] = [Idle EXCEPT !.op = "upload", !.pc = "done",
                                        !.err = "err",
                                        !.stream = closeStream(h[p].stream)]]
  /\ UNCHANGED <<fs, ops, allocCount, saveCalls, payloadsOf, titlesOf,
               disk, lastOk>>

\* ------------------------------------------------------------ saveVideo
\* The four exits of saveVideo, on handler record r.  err is the result of the
\* first os.Create: non-nil at the first exit, nil at the later ones.
\*   if err != nil { return err }
CreateVideoFailed(r) == LET err == "err" IN Return(r, err, "createVideo")

\* Variant of CopyFailed that does not return: saveVideo goes on to the
\* metadata file after a failed copy.
CopyFailedContinue(r) == [r EXCEPT !.pc = "createData", !.fail = "copy"]

\*   if err1 != nil { return err }
CopyFailed(r) == LET err == "nil" IN Return(r, err, "copy")

\*   if err2 != nil { return err }
CreateDataFailed(r) == LET err == "nil" IN Return(r, err, "createData")

\*   _, err3 := videoDataFile.WriteString(video.Title); return err3
TitleWritten(r, err3) ==
  Return(r, err3, IF err3 = "nil" THEN "none" ELSE "writeTitle")

\* History: another saveVideo call is in progress on the slot.
Overlaps(slot) ==
  \E q \in Procs : h[q].pc \in SavePcs /\ SlotOf(videoDirectory(h[q].id)) = slot

\* A direct saveVideo call on a slot that exists already (a re-save).
SaveAgain(p, name, title, src) ==
  /\ Free(p)
  /\ fs[name].dir
  /\ h' = [q \in Procs |->
             IF q = p
             THEN [Idle EXCEPT !.op = "save", !.pc = "createVideo",
                               !.id = name, !.title = title, !.src = src,
                               !.shared = Overlaps(name)]
             ELSE IF h[q].pc \in SavePcs /\ SlotOf(videoDirectory(h[q].id)) = name
                  THEN [h[q] EXCEPT !.shared = TRUE]
                  ELSE h[q]]
  /\ ops' = ops + 1
  /\ NoteCall(SlotOf(videoDirectory(name)), title, src)
  /\ UNCHANGED <<fs, allocCount, disk>>

\* os.Create(videoDirectory + "/video.mp4"): creates or truncates the file.
CreateVideoFile(p) ==
  LET slot == SlotOf(videoDirectory(h[p].id)) IN
  /\ h[p].pc = "createVideo"
  /\ \/ /\ IsDir(fs, slot)
        /\ fs' = [fs EXCEPT ![slot].video = EmptyFile]
        /\ h' = [Touch(h) EXCEPT ![p] = [h[p] EXCEPT !.pc = "copy", !.off = 0]]
        /\ UNCHANGED lastOk
     \/ /\ UNCHANGED fs
        /\ h' = [h EXCEPT ![p] = CreateVideoFailed(h[p])]
        /\ NoteReturn(h[p], CreateVideoFailed(h[p]))
  /\ UNCHANGED <<ops, allocCount, saveCalls, payloadsOf, titlesOf, disk>>

\* One round of io.Copy: read up to CopyBuf bytes of the stream and write them
\* at the file's offset.  At the end of the stream io.Copy returns nil; a
\* failed Read, or a Write that stops after n bytes, makes it return err1.
CopyStep(p) ==
  LET slot == SlotOf(videoDirectory(h[p].id))
      chunk == Take(Drop(h[p].src, h[p].off), CopyBuf)
  IN
  /\ h[p].pc = "copy"
  /\ \/ /\ chunk = <<>>
        /\ h' = [h EXCEPT ![p] = [h[p] EXCEPT !.pc = "createData"]]
        /\ UNCHANGED <<fs, lastOk>>
     \/ /\ chunk /= <<>>
        /\ fs' = [fs EXCEPT ![slot].video.data = WriteAt(@, h[p].off, chunk)]
        /\ h' = [Touch(h) EXCEPT ![p] = [h[p] EXCEPT !.off = @ + Len(chunk)]]
        /\ UNCHANGED lastOk
     \/ \E n \in 0..(Len(chunk) - 1) :
          /\ fs' = [fs EXCEPT ![slot].video.data =
                                 WriteAt(@, h[p].off, Take(chunk, n))]
          /\ h' = [(IF n > 0 THEN Touch(h) ELSE h) EXCEPT
                     ![p] = CopyFailed(h[p])]
          /\ NoteReturn(h[p], CopyFailed(h[p]))
  /\ UNCHANGED <<ops, allocCount, saveCalls, payloadsOf, titlesOf, disk>>

\* os.Create(videoDirectory + "/videodata.txt").
CreateDataFile(p) ==
  LET slot == SlotOf(videoDirectory(h[p].id)) IN
  /\ h[p].pc = "createData"
  /\ \/ /\ fs' = [fs EXCEPT ![slot].meta = EmptyFile]
        /\ h' = [Touch(h) EXCEPT ![p] = [h[p] EXCEPT !.pc = "writeTitle"]]
        /\ UNCHANGED lastOk
     \/ /\ UNCHANGED fs
        /\ h' = [h EXCEPT ![p] = CreateDataFailed(h[p])]
        /\ NoteReturn(h[p], CreateDataFailed(h[p]))
  /\ UNCHANGED <<ops, allocCount, saveCalls, payloadsOf, titlesOf, disk>>

\* videoDataFile.WriteString(video.Title): writes the title at offset 0 of
\* the file, or stops after n of its bytes with an error.
WriteTitle(p) ==
  LET slot == SlotOf(videoDirectory(h[p].id)) IN
  /\ h[p].pc = "writeTitle"
  /\ \/ /\ fs' = [fs EXCEPT ![slot].meta.data = WriteAt(@, 0, h[p].title)]
        /\ h' = [Touch(h) EXCEPT ![p] = TitleWritten(h[p], "nil")]
        /\ NoteReturn(h[p], TitleWritten(h[p], "nil"))
     \/ \E n \in 0..(Len(h[p].title) - 1) :
          /\ fs' = [fs EXCEPT ![slot].meta.data =
                                 WriteAt(@, 0, Take(h[p].title, n))]
          /\ h' = [(IF n > 0 THEN Touch(h) ELSE h) EXCEPT
                     ![p] = TitleWritten(h[p], "err")]
          /\ NoteReturn(h[p], TitleWritten(h[p], "err"))
  /\ UNCHANGED <<ops, allocCount, saveCalls, payloadsOf, titlesOf, disk>>

\* --------------------------------------------------------- watchHandler
StrNotFound ==
  <<"/", "?", "e", "r", "r", "o", "r", "=", "n", "o", "t", "f", "o", "u", "n",
    "d", "&", "i", "d", "=">>

\* The ids a client may ask for: every name, and one TempDir never draws.
WatchIds == Names \cup { <<DigitChars[1]>> }

\* renderTemplate(writer, templateFile, data): the page the handler rendered
\* (page), from the data its record holds (video, or the list res).
renderTemplate(templateFile) == templateFile

\* watchHandler: loadVideo(id), a redirect to the home page when it fails;
\* there is no return after the redirect, so the watch page is rendered from
\* video in both cases.
Watch(p, id) ==
  /\ Free(p)
  /\ LET r == loadVideo(fs, id)
     IN h' = [h EXCEPT ![p] =
                [Idle EXCEPT !.op = "watch", !.pc = "done", !.id = id,
                             !.video = r.video, !.err = r.err,
                             !.out = IF r.err /= "nil"
                                     THEN StrNotFound \o id ELSE <<>>,
                             !.page = renderTemplate("watch")]]
  /\ ops' = ops + 1
  /\ UNCHANGED <<fs, allocCount, saveCalls, payloadsOf, titlesOf,
               disk, lastOk>>

\* --------------------------------------------- homeHandler, getAvailableVideos
\* ioutil.ReadDir("videos") succeeds: the loop over its entries starts.
HomeList(p) ==
  /\ Free(p)
  /\ h' = [h EXCEPT ![p] =
             [Idle EXCEPT !.op = "home", !.pc = "loop", !.list = ReadDir(fs),
                          !.i = 1, !.snap = fs, !.snapOk = lastOk,
                          !.quiet = \A q \in Procs : h[q].pc \notin SavePcs]]
  /\ ops' = ops + 1
  /\ UNCHANGED <<fs, allocCount, saveCalls, payloadsOf, titlesOf,
               disk, lastOk>>

\* ioutil.ReadDir fails: getAvailableVideos returns (nil, err).
HomeListFail(p) ==
  /\ Free(p)
  /\ h' = [h EXCEPT ![p] = [Idle EXCEPT !.op = "home", !.pc = "done",
                                        !.err = "err"]]
  /\ ops' = ops + 1
  /\ UNCHANGED <<fs, allocCount, saveCalls, payloadsOf, titlesOf,
               disk, lastOk>>

\* The loop body: video, _ := loadVideo(f.Name()); append(availableVideos, video).
appendLoaded(f, res, name) == Append(res, loadVideo(f, name).video)

\* Variant of availableVideos that fails the enumeration when a slot did not
\* load.
availableVideosStrict(res) ==
  IF \E k \in 1..Len(res) : res[k].isNil
  THEN [videos |-> <<>>, err |-> "err"]
  ELSE [videos |-> res, err |-> "nil"]

\* After the loop: return availableVideos, nil.
availableVideos(res) == [videos |-> res, err |-> "nil"]

HomeLoad(p) ==
  /\ h[p].op = "home" /\ h[p].pc = "loop"
  /\ h[p].i <= Len(h[p].list)
  /\ h' = [h EXCEPT ![p] =
             [h[p] EXCEPT !.res = appendLoaded(fs, @, h[p].list[h[p].i]),
                          !.i = @ + 1]]
  /\ UNCHANGED <<fs, ops, allocCount, saveCalls, payloadsOf, titlesOf,
               disk, lastOk>>

\* The loop is over: getAvailableVideos returns (availableVideos, nil) and
\* homeHandler renders the home page from the list.
HomeReturn(p) ==
  /\ h[p].op = "home" /\ h[p].pc = "loop"
  /\ h[p].i > Len(h[p].list)
  /\ h' = [h EXCEPT ![p] =
             [h[p] EXCEPT !.pc = "done", !.list = <<>>, !.i = 0,
                          !.res = availableVideos(h[p].res).videos,
                          !.err = availableVideos(h[p].res).err,
                          !.page = IF availableVideos(h[p].res).err = "nil"
                                   THEN renderTemplate("home") ELSE "none"]]
  /\ UNCHANGED <<fs, ops, allocCount, saveCalls, payloadsOf, titlesOf,
               disk, lastOk>>

\* ------------------------------------------------------------------ crash
\* The server process dies: every request in progress is abandoned where it
\* is; the file system keeps what was written.
Crash ==
  /\ \E p \in Procs : h[p].pc \notin {"idle", "done"}
  /\ h' = [p \in Procs |-> IF h[p].pc \in {"idle", "done"} THEN h[p] ELSE Idle]
  /\ UNCHANGED <<fs, ops, allocCount, saveCalls, payloadsOf, titlesOf,
               disk, lastOk>>

Next ==
  \/ \E p \in Procs, title \in Titles, src \in Payloads : UploadParse(p, title, src)
  \/ \E p \in Procs : UploadParseFail(p)
  \/ \E p \in Procs : TempDir(p)
  \/ \E p \in Procs : TempDirFail(p)
  \/ \E p \in Procs, name \in Names, title \in Titles, src \in Payloads :
       SaveAgain(p, name, title, src)
  \/ \E p \in Procs : CreateVideoFile(p)
  \/ \E p \in Procs : CopyStep(p)
  \/ \E p \in Procs : CreateDataFile(p)
  \/ \E p \in Procs : WriteTitle(p)
  \/ \E p \in Procs, id \in WatchIds : Watch(p, id)
  \/ \E p \in Procs : HomeList(p)
  \/ \E p \in Procs : HomeListFail(p)
  \/ \E p \in Procs : HomeLoad(p)
  \/ \E p \in Procs : HomeReturn(p)
  \/ Crash

Spec == Init /\ [][Next]_vars

\* ------------------------------------------------------------- durability
\* saveVideo writes through os.File and never calls Sync: what it wrote sits
\* in the kernel's cache until the kernel writes it back, a directory entry or
\* a file at a time, at moments of the kernel's choosing.
Parts == {"dir", "video", "meta"}

Writeback(n, part) ==
  /\ fs[n].dir
  /\ \/ /\ part = "dir" /\ disk' = [disk EXCEPT ![n].dir = TRUE]
     \/ /\ part = "video" /\ disk[n].dir
        /\ disk' = [disk EXCEPT ![n].video = fs[n].video]
     \/ /\ part = "meta" /\ disk[n].dir
        /\ disk' = [disk EXCEPT ![n].meta = fs[n].meta]
  /\ disk' /= disk
  /\ UNCHANGED <<fs, h, ops, allocCount, saveCalls, payloadsOf, titlesOf, lastOk>>

\* The machine loses power: the requests in progress are gone and videos/ is
\* what had reached the disk.
PowerLoss ==
  /\ fs /= disk
  /\ fs' = disk
  /\ h' = [p \in Procs |-> IF h[p].pc \in {"idle", "done"} THEN h[p] ELSE Idle]
  /\ UNCHANGED <<ops, allocCount, saveCalls, payloadsOf, titlesOf, disk, lastOk>>

\* The uploads, with the kernel's write-back and power losses.
NextDurable ==
  \/ \E p \in Procs, title \in Titles, src \in Payloads : UploadParse(p, title, src)
  \/ \E p \in Procs : TempDir(p)
  \/ \E p \in Procs : CreateVideoFile(p)
  \/ \E p \in Procs : CopyStep(p)
  \/ \E p \in Procs : CreateDataFile(p)
  \/ \E p \in Procs : WriteTitle(p)
  \/ \E n \in Names, part \in Parts : Writeback(n, part)
  \/ PowerLoss

SpecDurable == Init /\ [][NextDurable]_vars

\* ============================================================ properties
\* The slot a handler's saveVideo call works on.
SlotOfProc(p) == SlotOf(videoDirectory(h[p].id))

\* A saveVideo call on the slot is in progress.
SaveBusy(slot) == \E p \in Procs : h[p].pc \in SavePcs /\ SlotOfProc(p) = slot

\* The handler is an upload that got its id from TempDir.
HasId(p) ==
  h[p].op = "upload" /\ (h[p].pc \in SavePcs \/ (h[p].pc = "done" /\ h[p].id /= <<>>))

\* The metadata record of id exists.
MetaExists(id) == id \in Names /\ fs[id].dir /\ fs[id].meta.exists

\* C1: no name is returned by two TempDir calls, and the ids held by two
\* uploads (running or finished, in any interleaving) differ.
C1_IdsDistinct ==
  /\ \A n \in Names : allocCount[n] <= 1
  /\ \A p, q \in Procs : p /= q /\ HasId(p) /\ HasId(q) => h[p].id /= h[q].id

\* C1 witness: two uploads that ran concurrently both hold an id.
C1_Witness ==
  \E p, q \in Procs : p /= q /\ HasId(p) /\ HasId(q) /\ h[q].pc \in SavePcs

\* C2: a saveVideo call in which a write step failed returns a non-nil error.
C2_WriteFailed ==
  \A p \in Procs :
    h[p].op \in {"upload", "save"} /\ h[p].pc = "done" /\ h[p].fail /= "none"
      => h[p].err /= "nil"

\* C3: when the payload write (creating video.mp4 or copying the stream) of
\* the only saveVideo call on a slot failed, the slot has no metadata record,
\* loadVideo fails on it and no enumeration reports it as a Video.
C3_NoMetaAfterPayloadFail ==
  \A p \in Procs :
    /\ h[p].op \in {"upload", "save"} /\ h[p].pc = "done"
    /\ h[p].fail \in {"createVideo", "copy"}
    /\ SlotOfProc(p) \in Names /\ saveCalls[SlotOfProc(p)] = 1
    => /\ ~MetaExists(SlotOfProc(p))
       /\ loadVideo(fs, h[p].id).err = "err"
       /\ \A q \in Procs : \A k \in 1..Len(h[q].res) :
            ~h[q].res[k].isNil => h[q].res[k].Id /= h[p].id

\* C3 witness: an upload whose copy failed after part of the payload was
\* written, and a later watch request for its id that got the error.
C3_Witness ==
  \E p, q \in Procs :
    /\ h[p].op = "upload" /\ h[p].pc = "done" /\ h[p].fail = "copy"
    /\ fs[SlotOfProc(p)].video.data /= <<>>
    /\ h[q].op = "watch" /\ h[q].id = h[p].id /\ h[q].err = "err"

\* The payload of the slot is fully written: video.mp4 holds the whole
\* payload of a saveVideo call made on the slot.
PayloadFull(slot) ==
  fs[slot].video.exists /\ fs[slot].video.data \in payloadsOf[slot]

\* C4 as claimed: in every state, a slot that has its metadata record has its
\* payload fully written.
C4_MetaImpliesPayload ==
  \A n \in Names : MetaExists(n) => PayloadFull(n)

\* C4 amended: the same for every slot saveVideo was called on at most once
\* (each slot uploadHandler reserves and saves to).
C4_MetaImpliesPayloadFirstSave ==
  \A n \in Names : saveCalls[n] <= 1 /\ MetaExists(n) => PayloadFull(n)

\* C4 witness: the first save on a slot has created videodata.txt after
\* copying a payload of more than one byte.
C4_Witness ==
  \E p \in Procs :
    /\ h[p].op = "upload" /\ h[p].pc = "writeTitle"
    /\ saveCalls[SlotOfProc(p)] = 1 /\ MetaExists(SlotOfProc(p))
    /\ Len(h[p].src) > 1

\* C5: after a saveVideo call on a slot returned nil, and with no other
\* saveVideo call on the slot since, loadVideo returns the title of that call.
C5_TitleRoundTrip ==
  \A n \in Names :
    lastOk[n].valid /\ ~SaveBusy(n)
      => /\ loadVideo(fs, n).err = "nil"
         /\ loadVideo(fs, n).video = Video(n, lastOk[n].title)

\* C6: after a saveVideo call on a slot returned nil, and with no other
\* saveVideo call on the slot since, video.mp4 holds exactly the bytes of the
\* stream passed to that call.
C6_PayloadRoundTrip ==
  \A n \in Names :
    lastOk[n].valid /\ ~SaveBusy(n)
      => fs[n].video.exists /\ fs[n].video.data = lastOk[n].payload

\* C7: every watch request for an id without a metadata record (never
\* allocated, or allocated and never saved) gets the error of loadVideo and no
\* Video.
C7_LoadNotFound ==
  [][\A p \in Procs, id \in WatchIds :
       Watch(p, id) /\ ~MetaExists(id)
         => h'[p].err = "err" /\ h'[p].video.isNil /\ h'[p].out = StrNotFound \o id]_vars

\* C7 witness: a watch request for a slot that is reserved but has no metadata
\* record ended in the error.
C7_Witness ==
  \E p \in Procs, n \in Names :
    /\ h[p].op = "watch" /\ h[p].pc = "done" /\ h[p].id = n /\ h[p].err = "err"
    /\ fs[n].dir /\ ~fs[n].meta.exists

\* A home request whose getAvailableVideos call has returned its list.
Enumerated(p) == h[p].op = "home" /\ h[p].pc = "done" /\ h[p].err = "nil"

\* C8: the list getAvailableVideos returns has no nil entry: every element is
\* a Video of a slot whose metadata record was readable.
C8_SkipsFailedSlots ==
  \A p \in Procs :
    Enumerated(p) => \A k \in 1..Len(h[p].res) : ~h[p].res[k].isNil

\* C9: an enumeration of a quiescent store in which every slot is one a
\* saveVideo call returned nil for (no save on the slot since) returns exactly
\* one Video per slot, with the title of that call, and nothing else.
C9_EnumerateSaved ==
  \A p \in Procs :
    /\ h[p].op = "home" /\ h[p].pc = "done" /\ h[p].quiet /\ ~h[p].dirty
    /\ \A n \in Names : h[p].snap[n].dir => h[p].snapOk[n].valid
    => /\ h[p].err = "nil"
       /\ Len(h[p].res) = Cardinality({ n \in Names : h[p].snap[n].dir })
       /\ \A n \in Names :
            h[p].snap[n].dir
              => \E k \in 1..Len(h[p].res) :
                   h[p].res[k] = Video(n, h[p].snapOk[n].title)

\* C10: once the listing of videos/ succeeded, getAvailableVideos returns
\* success whatever its slots hold, and (the store not changing meanwhile) its
\* list has, for every slot with a metadata record, the Video with the slot's
\* name and the title stored in the record.
C10_EnumerateTolerant ==
  [][\A p \in Procs :
       h[p].op = "home" /\ h[p].pc = "loop" /\ h'[p].pc = "done"
         => /\ h'[p].err = "nil"
            /\ ~h[p].dirty =>
                 \A n \in Names :
                   h[p].snap[n].dir /\ h[p].snap[n].meta.exists
                     => \E k \in 1..Len(h'[p].res) :
                          h'[p].res[k] = Video(n, h[p].snap[n].meta.data)]_vars

\* C10 witness: an enumeration over a store with a slot without metadata
\* record and a slot with one returned success and the Video of the latter.
C10_Witness ==
  \E p \in Procs, bad, good \in Names :
    /\ Enumerated(p) /\ ~h[p].dirty
    /\ h[p].snap[bad].dir /\ ~h[p].snap[bad].meta.exists
    /\ h[p].snap[good].dir /\ h[p].snap[good].meta.exists
    /\ \E k \in 1..Len(h[p].res) :
         h[p].res[k] = Video(good, h[p].snap[good].meta.data)

\* C11: getAvailableVideos returns an error exactly when the listing of videos/
\* failed; once the listing succeeded it returns nil, whatever loadVideo
\* returned for the slots.
C11_ErrorIffListingFails ==
  [][\A p \in Procs :
       h'[p] /= h[p] /\ h'[p].op = "home" /\ h'[p].pc = "done"
         => (h'[p].err = "err" <=> ~(h[p].op = "home" /\ h[p].pc = "loop"))]_vars

\* C11 witness: an enumeration in which a slot failed to load returned nil.
C11_Witness ==
  \E p \in Procs :
    /\ Enumerated(p)
    /\ \E k \in 1..Len(h[p].res) : h[p].res[k].isNil

\* C12: after two successive saveVideo calls on a slot that both returned nil
\* (no other call on the slot since), loadVideo returns exactly the title of
\* the second call and video.mp4 holds exactly its payload, whatever the first
\* call had written.
C12_LastWriteWins ==
  \A n \in Names :
    lastOk[n].valid /\ lastOk[n].oks >= 2 /\ ~SaveBusy(n)
      => /\ loadVideo(fs, n) = [video |-> Video(n, lastOk[n].title), err |-> "nil"]
         /\ fs[n].video = [exists |-> TRUE, data |-> lastOk[n].payload]

\* C13: a step changes a slot only when it is a step of a saveVideo call on
\* the id naming that slot (which leaves the directory itself alone), or the
\* TempDir call creating the slot; so the slots of all other ids keep their
\* metadata and payload under every interleaving, two saves on one id included.
C13_SaveTouchesOwnSlotOnly ==
  [][\A n \in Names :
       fs'[n] /= fs[n]
         => \E p \in Procs :
              \/ /\ h[p].pc \in SavePcs /\ h[p].id = n /\ h'[p] /= h[p]
                 /\ fs'[n].dir = fs[n].dir
              \/ /\ h[p].pc = "tempdir" /\ h'[p].pc = "createVideo"
                 /\ ~fs[n].dir /\ fs'[n] = [NoSlot EXCEPT !.dir = TRUE]]_vars

\* C13 witness: two saveVideo calls run on one id and have written to it,
\* while the video stored under the other id is as it was.
C13_Witness ==
  \E p, q \in Procs, n \in Names :
    /\ p /= q /\ h[p].pc \in SavePcs /\ h[q].pc \in SavePcs
    /\ h[p].id = h[q].id /\ h[p].id /= n
    /\ h[p].off > 0 /\ h[q].off > 0
    /\ fs[n].dir /\ fs[n] = OldStore[n]

\* C14: when the only saveVideo call on a slot wrote the payload and then
\* failed on the metadata (creating videodata.txt, or writing the title), the
\* slot holds the payload and no metadata record, and loadVideo fails on it.
C14_OrphanPayloadNoMeta ==
  \A p \in Procs :
    /\ h[p].op \in {"upload", "save"} /\ h[p].pc = "done"
    /\ h[p].fail \in {"createData", "writeTitle"}
    /\ SlotOfProc(p) \in Names /\ saveCalls[SlotOfProc(p)] = 1
    => /\ PayloadFull(SlotOfProc(p))
       /\ ~MetaExists(SlotOfProc(p))
       /\ loadVideo(fs, h[p].id).err = "err"

\* C15: the stream FormFile opened is open while uploadHandler runs and is
\* closed once the handler has returned, on every exit: after a failed
\* TempDir, after a saveVideo call that failed at any step, and after success.
C15_StreamClosedOnReturn ==
  \A p \in Procs :
    h[p].op = "upload"
      => /\ h[p].pc \in ({"tempdir"} \cup SavePcs) => h[p].stream = "open"
         /\ h[p].pc = "done" => h[p].stream /= "open"
         /\ h[p].pc = "done" /\ h[p].id /= <<>> => h[p].stream = "closed"

\* C15 witness: an upload whose TempDir failed and one whose copy failed have
\* both returned with the stream closed.
C15_Witness ==
  \E p, q \in Procs :
    /\ h[p].op = "upload" /\ h[p].pc = "done" /\ h[p].fail = "copy"
    /\ h[p].stream = "closed"
    /\ h[q].op = "upload" /\ h[q].pc = "done" /\ h[q].id = <<>>
    /\ h[q].stream = "closed"

\* C16: once a saveVideo call on a slot has returned nil (and no call on the
\* slot since), the whole payload and the whole title of the call are on the
\* disk, so a power loss at that moment leaves both readable.
C16_DurableOnSuccess ==
  \A n \in Names :
    lastOk[n].valid /\ ~SaveBusy(n)
      => /\ disk[n].dir
         /\ disk[n].video = [exists |-> TRUE, data |-> lastOk[n].payload]
         /\ disk[n].meta = [exists |-> TRUE, data |-> lastOk[n].title]

\* C17: a watch request whose loadVideo failed emits the notfound redirect
\* and renders no page (so none from a nil Video), and the list a home page
\* is rendered from has no nil Video.
C17_UnreadableIsNotFound ==
  \A p \in Procs :
    /\ h[p].op = "watch" /\ h[p].pc = "done" /\ h[p].err /= "nil"
         => h[p].out = StrNotFound \o h[p].id /\ h[p].page = "none"
    /\ h[p].op = "home" /\ h[p].page = "home"
         => \A k \in 1..Len(h[p].res) : ~h[p].res[k].isNil

\* C18: a loadVideo call made while a saveVideo call is in progress on the
\* same id (by a watch request, or inside an enumeration) and that succeeds
\* returns a title that was passed to a saveVideo call on that id, never the
\* empty or partial content of a videodata.txt that is being written.
C18_NoTornTitle ==
  [][/\ \A p \in Procs, id \in WatchIds :
          Watch(p, id) /\ SaveBusy(id) /\ h'[p].err = "nil"
            => h'[p].video.Title \in titlesOf[id]
     /\ \A p \in Procs :
          HomeLoad(p) /\ SaveBusy(h[p].list[h[p].i])
            => LET v == h'[p].res[Len(h'[p].res)]
               IN ~v.isNil => v.Title \in titlesOf[v.Id]]_vars

\* C19: the id uploadHandler derives at its TempDir step is the name of the
\* directory that step created under videos/, which the listing of videos/
\* then holds; and every write of the upload's saveVideo call changes that
\* directory's slot and no other.
C19_IdIsSlotName ==
  [][\A p \in Procs :
       /\ TempDir(p)
            => \E name \in Names :
                 /\ ~fs[name].dir /\ fs'[name].dir
                 /\ h'[p].id = name
                 /\ SlotOf(videoDirectory(h'[p].id)) = name
                 /\ \E k \in 1..Len(ReadDir(fs')) : ReadDir(fs')[k] = h'[p].id
       /\ h[p].op = "upload" /\ h[p].pc \in SavePcs /\ h'[p] /= h[p] /\ fs' /= fs
            => /\ h[p].id \in Names /\ allocCount[h[p].id] >= 1
               /\ \A n \in Names : fs'[n] /= fs[n] => n = h[p].id]_vars

\* C19 witness: an upload has stored a video under its id, and an enumeration
\* made afterwards returned the Video with that id and the uploaded title.
C19_Witness ==
  \E p, q \in Procs :
    /\ h[p].op = "upload" /\ h[p].pc = "done" /\ h[p].out = StrWatch \o h[p].id
    /\ h[p].fail = "none" /\ MetaExists(h[p].id) /\ allocCount[h[p].id] = 1
    /\ Enumerated(q)
    /\ \E k \in 1..Len(h[q].res) :
         h[q].res[k] = Video(h[p].id, fs[h[p].id].meta.data)
    /\ fs[h[p].id].meta.data /= <<>>

\* C20: when an upload has redirected to /watch/<id> (no other saveVideo call
\* ever made on the id), loadVideo(id) succeeds and returns the uploaded
\* title; and an upload whose saveVideo call failed at some step has
\* redirected to the error page.
C20_WatchRedirectMeansCommitted ==
  \A p \in Procs :
    h[p].op = "upload" /\ h[p].pc = "done" /\ h[p].id \in Names
      => /\ h[p].out = StrWatch \o h[p].id /\ saveCalls[h[p].id] = 1
              => \E t \in titlesOf[h[p].id] :
                   loadVideo(fs, h[p].id) = [video |-> Video(h[p].id, t), err |-> "nil"]
         /\ h[p].fail /= "none" => h[p].out = StrErrorFu

====
